---- MODULE Spec2Model ----
(***************************************************************************)
(* The table widget of native/src/widget/table.rs and its row-background   *)
(* cursor (table/background.rs): the builder chain                          *)
(*   try_new . {fill_factor, padding, striped, style, try_selected,        *)
(*              try_header}* . into()                                      *)
(* followed by the host-driven passes (children, diff, layout, draw,       *)
(* operate, on_event, mouse_interaction) on the built widget.              *)
(***************************************************************************)
EXTENDS Integers, Sequences, FiniteSets, TLC

VARIABLES
    pc,      \* "start": nothing built; "table": a Table value is held by the
             \* caller; "err": the last builder call returned Err (the Table
             \* it consumed is gone); "widget": the Table was turned into an
             \* Element and the host holds it; "pass": a pass of the host
             \* over the widget has produced its result; "panic": a pass
             \* panicked
    table,   \* Option<Table>: <<>> or <<t>>, t a record of the struct's fields
    call,    \* the last call made: its name, its arguments, what it returned
             \* and the shape of the receiver before it
    asked_fill,  \* the k of the caller's most recent fill_factor(k), 1 if none
    asked_selected  \* Some(slice) of the latest try_selected that returned Ok

vars == <<pc, table, call, asked_fill, asked_selected>>

----------------------------------------------------------------------------
(* Bounds of the model *)

MaxCols == 1
MaxRows == 3

\* the cell counts a caller may give a row: up to one more than any column list
MaxCells == MaxCols + 1

----------------------------------------------------------------------------
(* Option and Result *)

None == <<>>
Some(x) == <<x>>
IsSome(o) == Len(o) = 1
Unwrap(o) == o[1]

Ok(v) == [tag |-> "Ok", val |-> v]
Err(e) == [tag |-> "Err", val |-> e]

Min(a, b) == IF a <= b THEN a ELSE b

----------------------------------------------------------------------------
(* table/length.rs, table/column.rs *)

Fill == [kind |-> "Fill", v |-> 0]
FillPortion(n) == [kind |-> "FillPortion", v |-> n]
Fixed(px) == [kind |-> "Fixed", v |-> px]
Shrink == [kind |-> "Shrink", v |-> 0]

\* impl From<Length> for iced_core::Length
CoreLength(w) ==
    CASE w.kind = "Fill" -> Fill
      [] w.kind = "FillPortion" -> FillPortion(w.v)
      [] w.kind = "Fixed" -> Fixed(w.v)

Column(w, a, p) == [width |-> w, alignment |-> a, cell_padding |-> p]

\* the columns a caller builds tables from
ColumnChoices ==
    { Column(Fixed(100), <<"Center", "Center">>, 2),
      Column(Fill, <<"Left", "Top">>, 2),
      Column(FillPortion(2), <<"Right", "Bottom">>, 0) }

ColumnLists == UNION { [1..n -> ColumnChoices] : n \in 0..MaxCols }

----------------------------------------------------------------------------
(* table/row.rs *)

Row(cells, height) == [cells |-> cells, height |-> height]

\* the cells of the r-th row a caller passes: k elements, named by position
\* (row 0 is a header row)
Cells(r, k) == [c \in 1..k |-> [r |-> r, c |-> c]]

RowHeights == {50}
HeaderHeights == {30}

\* the row lists a caller passes to try_new: every cell count per row
RowLists ==
    UNION { { [i \in 1..n |-> Row(Cells(i, k[i]), h)] :
                k \in [1..n -> 0..MaxCells], h \in RowHeights } :
            n \in 0..MaxRows }

HeaderRows == { Row(Cells(0, k), h) : k \in 0..MaxCells, h \in HeaderHeights }

Alignments == { None, Some(<<"Center", "Center">>) }

----------------------------------------------------------------------------
(* Table *)

\* Table::row aligning every cell after its column, whatever the override
WrapRowIgnoresOverride(cells, height, columns, overriding_alignments) ==
    Row([i \in 1..Min(Len(cells), Len(columns)) |->
            [content |-> cells[i],
             width |-> CoreLength(columns[i].width),
             height |-> Fixed(height),
             padding |-> columns[i].cell_padding,
             align_x |-> columns[i].alignment[1],
             align_y |-> columns[i].alignment[2]]],
        height)

\* Table::row: each cell in a Container sized, padded and aligned after its
\* column (zip stops at the shorter of the two lists)
WrapRow(cells, height, columns, overriding_alignments) ==
    Row([i \in 1..Min(Len(cells), Len(columns)) |->
            [content |-> cells[i],
             width |-> CoreLength(columns[i].width),
             height |-> Fixed(height),
             padding |-> columns[i].cell_padding,
             align_x |-> IF IsSome(overriding_alignments)
                         THEN Unwrap(overriding_alignments)[1]
                         ELSE columns[i].alignment[1],
             align_y |-> IF IsSome(overriding_alignments)
                         THEN Unwrap(overriding_alignments)[2]
                         ELSE columns[i].alignment[2]]],
        height)

\* WrapOrErr reporting the row's own cell count instead of the column count
WrapOrErrRowLen(row, columns) ==
    IF Len(row.cells) # Len(columns)
    THEN Err(Len(row.cells))
    ELSE Ok(WrapRow(row.cells, row.height, columns, None))

\* the closure try_new maps over the rows
WrapOrErr(row, columns) ==
    IF Len(row.cells) # Len(columns)
    THEN Err(Len(columns))
    ELSE Ok(WrapRow(row.cells, row.height, columns, None))

\* Collect building the vector back to front
RECURSIVE CollectReversed(_, _)
CollectReversed(results, acc) ==
    IF results = <<>> THEN Ok(acc)
    ELSE IF Head(results).tag = "Err" THEN Head(results)
    ELSE CollectReversed(Tail(results), <<Head(results).val>> \o acc)

\* Iterator::collect::<Result<Vec<_>, _>>: the first Err, else every Ok value
RECURSIVE Collect(_, _)
Collect(results, acc) ==
    IF results = <<>> THEN Ok(acc)
    ELSE IF Head(results).tag = "Err" THEN Head(results)
    ELSE Collect(Tail(results), Append(acc, Head(results).val))

try_new(columns, rows) ==
    LET collected == Collect([i \in 1..Len(rows) |-> WrapOrErr(rows[i], columns)], <<>>)
    IN  IF collected.tag = "Err" THEN collected
        ELSE Ok([columns |-> columns,
                 rows |-> collected.val,
                 fill_factor |-> 1,
                 header |-> None,
                 padding |-> 0,
                 is_striped |-> FALSE,
                 selected |-> None,
                 style |-> "Default"])

set_fill_factor(t, k) == [t EXCEPT !.fill_factor = k]
set_padding(t, p) == [t EXCEPT !.padding = p]
set_striped(t, b) == [t EXCEPT !.is_striped = b]
set_style(t, s) == [t EXCEPT !.style = s]

\* try_selected refusing only the slices that are too long
try_selectedAcceptsShorter(t, selected_rows) ==
    IF Len(selected_rows) > Len(t.rows)
    THEN Err(Len(t.rows))
    ELSE Ok([t EXCEPT !.selected = Some(selected_rows)])

\* try_selected refusing only the slices that are too short
try_selectedAcceptsLonger(t, selected_rows) ==
    IF Len(selected_rows) < Len(t.rows)
    THEN Err(Len(t.rows))
    ELSE Ok([t EXCEPT !.selected = Some(selected_rows)])

\* try_selected counting the header among the rows
try_selectedCountsHeader(t, selected_rows) ==
    IF Len(selected_rows) # Len(t.rows) + (IF IsSome(t.header) THEN 1 ELSE 0)
    THEN Err(Len(t.rows))
    ELSE Ok([t EXCEPT !.selected = Some(selected_rows)])

try_selected(t, selected_rows) ==
    IF Len(selected_rows) # Len(t.rows)
    THEN Err(Len(t.rows))
    ELSE Ok([t EXCEPT !.selected = Some(selected_rows)])

\* try_header building the new Table with striping at its default
try_headerResetsStriped(t, header, overriding_alignments) ==
    IF Len(header.cells) # Len(t.columns)
    THEN Err(Len(t.columns))
    ELSE Ok([fill_factor |-> t.fill_factor,
             header |-> Some(WrapRow(header.cells, header.height, t.columns,
                                     overriding_alignments)),
             columns |-> t.columns,
             rows |-> t.rows,
             padding |-> t.padding,
             is_striped |-> FALSE,
             selected |-> t.selected,
             style |-> t.style])

\* try_header checking the header against the number of rows
try_headerChecksRows(t, header, overriding_alignments) ==
    IF Len(header.cells) # Len(t.rows)
    THEN Err(Len(t.columns))
    ELSE Ok([t EXCEPT !.header = Some(WrapRow(header.cells, header.height, t.columns,
                                               overriding_alignments))])

try_header(t, header, overriding_alignments) ==
    IF Len(header.cells) # Len(t.columns)
    THEN Err(Len(t.columns))
    ELSE Ok([fill_factor |-> t.fill_factor,
             header |-> Some(WrapRow(header.cells, header.height, t.columns,
                                     overriding_alignments)),
             columns |-> t.columns,
             rows |-> t.rows,
             padding |-> t.padding,
             is_striped |-> t.is_striped,
             selected |-> t.selected,
             style |-> t.style])

\* Table::len
TableLen(t) == Len(t.rows) + (IF IsSome(t.header) THEN 1 ELSE 0)

\* the iterator yielding the header after the rows
TableIterHeaderLast(t) ==
    IF IsSome(t.header) THEN t.rows \o <<Unwrap(t.header)>> ELSE t.rows

\* IntoIterator for &Table: the header, if any, then the rows
TableIter(t) == IF IsSome(t.header) THEN <<Unwrap(t.header)>> \o t.rows ELSE t.rows

\* Width with the test on Fixed inverted
WidthAnyFixed(t) ==
    IF \E i \in 1..Len(t.columns) : t.columns[i].width.kind = "Fixed"
    THEN FillPortion(t.fill_factor)
    ELSE Shrink

\* Widget::width
Width(t) ==
    IF \E i \in 1..Len(t.columns) : t.columns[i].width.kind # "Fixed"
    THEN FillPortion(t.fill_factor)
    ELSE Shrink

\* Widget::height
Height(t) == Shrink

----------------------------------------------------------------------------
(* table/background.rs *)

\* the Background the theme gives a style for one kind of row
ThemeBackground(style, kind) == <<style, kind>>

\* RowType::new
RowTypeNew(has_header, is_striped) ==
    LET striped == IF is_striped THEN Some(FALSE) ELSE None
    IN  IF has_header
        THEN [tag |-> "Header", striped |-> striped]
        ELSE [tag |-> "Content", striped |-> striped]

\* RowType::next with the header advance toggling the stripe parity too
RowTypeNextHeaderToggles(rt) ==
    [current |-> rt,
     after |-> [tag |-> "Content",
                striped |-> IF IsSome(rt.striped)
                            THEN Some(~Unwrap(rt.striped))
                            ELSE None]]

\* RowType::next: the type before the call is returned, the cursor moves on
RowTypeNext(rt) ==
    [current |-> rt,
     after |-> IF rt.tag = "Header"
               THEN [tag |-> "Content", striped |-> rt.striped]
               ELSE [tag |-> "Content",
                     striped |-> IF IsSome(rt.striped)
                                 THEN Some(~Unwrap(rt.striped))
                                 ELSE None]]

\* RowBackground::new without the selection bits
RowBackgroundNewNoSelection(t) ==
    [normal |-> ThemeBackground(t.style, "active"),
     header |-> ThemeBackground(t.style, "header"),
     striped |-> ThemeBackground(t.style, "striped"),
     selected |-> ThemeBackground(t.style, "selected"),
     selected_rows_iter |-> None,
     current_type |-> RowTypeNew(IsSome(t.header), t.is_striped)]

\* RowBackground::new; the slice iterator is the bits not yet read
RowBackgroundNew(t) ==
    [normal |-> ThemeBackground(t.style, "active"),
     header |-> ThemeBackground(t.style, "header"),
     striped |-> ThemeBackground(t.style, "striped"),
     selected |-> ThemeBackground(t.style, "selected"),
     selected_rows_iter |-> IF IsSome(t.selected)
                            THEN Some(Unwrap(t.selected))
                            ELSE None,
     current_type |-> RowTypeNew(IsSome(t.header), t.is_striped)]

\* the match on the stripe parity of a content row
StripeBackground(bg, striped) ==
    IF IsSome(striped) /\ Unwrap(striped) THEN bg.striped ELSE bg.normal

\* RowBackground::next reading a selection bit on every advance, the header's
\* included
RowBackgroundNextHeaderReads(bg) ==
    LET step == RowTypeNext(bg.current_type)
        moved == [bg EXCEPT !.current_type = step.after]
        plain == IF step.current.tag = "Header" THEN bg.header
                 ELSE IF IsSome(step.current.striped) /\ Unwrap(step.current.striped)
                 THEN bg.striped ELSE bg.normal
    IN  IF IsSome(bg.selected_rows_iter)
        THEN LET bits == Unwrap(bg.selected_rows_iter)
             IN  IF bits = <<>>
                 THEN [bg |-> moved, panic |-> TRUE, fill |-> bg.normal]
                 ELSE [bg |-> [moved EXCEPT !.selected_rows_iter = Some(Tail(bits))],
                       panic |-> FALSE,
                       fill |-> IF Head(bits) THEN bg.selected ELSE plain]
        ELSE [bg |-> moved, panic |-> FALSE, fill |-> plain]

\* RowBackground::next leaving the stripe parity as it is on a selected row
RowBackgroundNextSelectedKeepsParity(bg) ==
    LET step == RowTypeNext(bg.current_type)
        moved == [bg EXCEPT !.current_type = step.after]
    IN  IF step.current.tag = "Header"
        THEN [bg |-> moved, panic |-> FALSE, fill |-> bg.header]
        ELSE IF IsSome(bg.selected_rows_iter)
        THEN LET bits == Unwrap(bg.selected_rows_iter)
             IN  IF bits = <<>>
                 THEN [bg |-> moved, panic |-> TRUE, fill |-> bg.normal]
                 ELSE IF Head(bits)
                      THEN [bg |-> [bg EXCEPT !.selected_rows_iter = Some(Tail(bits))],
                            panic |-> FALSE, fill |-> bg.selected]
                      ELSE [bg |-> [moved EXCEPT !.selected_rows_iter = Some(Tail(bits))],
                            panic |-> FALSE,
                            fill |-> StripeBackground(bg, step.current.striped)]
        ELSE [bg |-> moved, panic |-> FALSE,
              fill |-> StripeBackground(bg, step.current.striped)]

\* RowBackground::next: the cursor after the call and the Background returned;
\* panic when unwrap meets the end of the selection bits
RowBackgroundNext(bg) ==
    LET step == RowTypeNext(bg.current_type)
        moved == [bg EXCEPT !.current_type = step.after]
    IN  IF step.current.tag = "Header"
        THEN [bg |-> moved, panic |-> FALSE, fill |-> bg.header]
        ELSE IF IsSome(bg.selected_rows_iter)
        THEN LET bits == Unwrap(bg.selected_rows_iter)
             IN  IF bits = <<>>
                 THEN [bg |-> moved, panic |-> TRUE, fill |-> bg.normal]
                 ELSE LET read == [moved EXCEPT !.selected_rows_iter = Some(Tail(bits))]
                      IN  IF Head(bits)
                          THEN [bg |-> read, panic |-> FALSE, fill |-> bg.selected]
                          ELSE [bg |-> read, panic |-> FALSE,
                                fill |-> StripeBackground(bg, step.current.striped)]
        ELSE [bg |-> moved, panic |-> FALSE,
              fill |-> StripeBackground(bg, step.current.striped)]

----------------------------------------------------------------------------
(* Widget for Table *)

\* self.into_iter().zip(&tree.children).zip(layout.children()): the rows a
\* pass visits when the host supplies n_children (state, layout) pairs
Zipped(t, n_children) == SubSeq(TableIter(t), 1, Min(TableLen(t), n_children))

\* the loop of Table::draw over the zipped (row, state, layout) triples:
\* one fill_quad with background.next() per triple, then the row is drawn
RECURSIVE DrawLoop(_, _, _)
DrawLoop(items, bg, quads) ==
    IF items = <<>> THEN [panic |-> FALSE, quads |-> quads]
    ELSE LET n == RowBackgroundNext(bg)
         IN  IF n.panic THEN [panic |-> TRUE, quads |-> quads]
             ELSE DrawLoop(Tail(items), n.bg,
                           Append(quads, [row |-> Head(items), background |-> n.fill]))

\* Table::draw, the host supplying n_children (state, layout) pairs: the
\* shorter of tree.children and layout.children()
draw(t, n_children) ==
    DrawLoop(Zipped(t, n_children), RowBackgroundNew(t), <<>>)

\* Table::layout: the limits and the item count handed to flex::resolve_iter
layout(t) ==
    [width |-> Width(t),
     height |-> Height(t),
     padding |-> t.padding,
     items |-> TableLen(t) + (IF IsSome(t.header) THEN 1 ELSE 0)]

\* Table::children: one Tree per row the iterator yields
children(t) == TableIter(t)

\* Table::diff: diff_children_iter over the rows the iterator yields
diff(t) == TableIter(t)

\* Table::operate: the rows the operation is passed to
operate(t, n_children) == Zipped(t, n_children)

\* Table::mouse_interaction: the rows asked for their interaction
mouse_interaction(t, n_children) == Zipped(t, n_children)

\* event::Status::merge: Captured wins
merge(a, b) == IF a = "Captured" THEN "Captured" ELSE b

\* Iterator::fold(init, event::Status::merge)
RECURSIVE Fold(_, _)
Fold(statuses, acc) ==
    IF statuses = <<>> THEN acc ELSE Fold(Tail(statuses), merge(acc, Head(statuses)))

\* Row::on_event: every cell gets the event, the statuses are merged; the
\* cells of a row either all capture the event or all ignore it
row_on_event(row, captures) ==
    Fold([c \in 1..Len(row.cells) |-> IF captures THEN "Captured" ELSE "Ignored"],
         "Ignored")

\* update answering a mouse press on a table with a selection
updateSelectsOnPress(event, has_on_selected) ==
    IF event = "ButtonPressed" /\ has_on_selected
    THEN [status |-> "Captured", published |-> <<"on_selected">>]
    ELSE [status |-> "Ignored", published |-> <<>>]

\* update: the status it returns and the messages it publishes through
\* on_selected
update(event, has_on_selected) == [status |-> "Ignored", published |-> <<>>]

\* the fan-out of on_event; capturing is the set of positions whose row
\* captures the event. This one stops at the first row that captures it.
RECURSIVE FanOutUntilCaptured(_, _, _, _)
FanOutUntilCaptured(rows, k, capturing, acc) ==
    IF rows = <<>> THEN acc
    ELSE LET st == row_on_event(Head(rows), k \in capturing)
             got == [delivered |-> Append(acc.delivered, Head(rows)),
                     statuses |-> Append(acc.statuses, st)]
         IN  IF st = "Captured" THEN got
             ELSE FanOutUntilCaptured(Tail(rows), k + 1, capturing, got)

\* the fan-out of on_event: the map over the zipped rows, consumed by fold
RECURSIVE FanOut(_, _, _, _)
FanOut(rows, k, capturing, acc) ==
    IF rows = <<>> THEN acc
    ELSE FanOut(Tail(rows), k + 1, capturing,
                [delivered |-> Append(acc.delivered, Head(rows)),
                 statuses |-> Append(acc.statuses,
                                     row_on_event(Head(rows), k \in capturing))])

\* Table::on_event
on_event(t, event, n_children, capturing) ==
    LET u == update(event, IsSome(t.selected))
        f == FanOut(Zipped(t, n_children), 1, capturing,
                    [delivered |-> <<>>, statuses |-> <<>>])
    IN  [table_status |-> u.status,
         published |-> u.published,
         delivered |-> f.delivered,
         statuses |-> f.statuses,
         status |-> Fold(f.statuses, u.status)]

----------------------------------------------------------------------------
(* The calls *)

\* the events the host passes on
Events == {"ButtonPressed", "KeyPressed"}

\* which rows capture an event: none, the first visited, the last one
Capturing(n) == {{}} \cup (IF n >= 1 THEN {{1}, {n}} ELSE {})

FillFactors == {1, 3}
Paddings == {0, 5}
Styles == {"Default", "Custom"}

\* the selection slices a caller passes: every length up to MaxRows
Slices == UNION { [1..n -> BOOLEAN] : n \in 0..MaxRows }

T == Unwrap(table)

\* what the caller knows of the receiver before a call consumes it
Pre(t) == [nrows |-> Len(t.rows), ncols |-> Len(t.columns), has_header |-> IsSome(t.header)]
NoPre == [nrows |-> 0, ncols |-> 0, has_header |-> FALSE]

Called(op, arg, ret, pre) == [op |-> op, arg |-> arg, ret |-> ret, pre |-> pre]

\* a builder call that returns Result<Table, usize>
Returned(op, arg, r, pre) ==
    IF r.tag = "Ok"
    THEN /\ pc' = "table"
         /\ table' = Some(r.val)
         /\ call' = Called(op, arg, Ok(0), pre)
    ELSE /\ pc' = "err"
         /\ table' = None
         /\ call' = Called(op, arg, r, pre)

\* a builder call that returns the Table
Set(op, arg, t) ==
    /\ pc' = "table"
    /\ table' = Some(t)
    /\ call' = Called(op, arg, Ok(0), Pre(T))

Init ==
    /\ pc = "start"
    /\ table = None
    /\ call = Called("none", 0, Ok(0), NoPre)
    /\ asked_fill = 1
    /\ asked_selected = None

TryNew ==
    /\ pc = "start"
    /\ \E columns \in ColumnLists, rows \in RowLists :
          Returned("try_new", [columns |-> columns, rows |-> rows],
                   try_new(columns, rows), NoPre)
    /\ UNCHANGED <<asked_fill, asked_selected>>

FillFactor ==
    /\ pc = "table"
    /\ \E k \in FillFactors :
          /\ Set("fill_factor", k, set_fill_factor(T, k))
          /\ asked_fill' = k
    /\ UNCHANGED asked_selected

Padding ==
    /\ pc = "table"
    /\ \E p \in Paddings : Set("padding", p, set_padding(T, p))
    /\ UNCHANGED <<asked_fill, asked_selected>>

Striped ==
    /\ pc = "table"
    /\ \E b \in BOOLEAN : Set("striped", b, set_striped(T, b))
    /\ UNCHANGED <<asked_fill, asked_selected>>

Style ==
    /\ pc = "table"
    /\ \E s \in Styles : Set("style", s, set_style(T, s))
    /\ UNCHANGED <<asked_fill, asked_selected>>

TrySelected ==
    /\ pc = "table"
    /\ \E s \in Slices :
          /\ Returned("try_selected", s, try_selected(T, s), Pre(T))
          /\ asked_selected' = IF try_selected(T, s).tag = "Ok" THEN Some(s)
                               ELSE asked_selected
    /\ UNCHANGED asked_fill

TryHeader ==
    /\ pc = "table"
    /\ \E h \in HeaderRows, a \in Alignments :
          Returned("try_header", [header |-> h, overriding_alignments |-> a],
                   try_header(T, h, a), Pre(T))
    /\ UNCHANGED <<asked_fill, asked_selected>>

\* From<Table> for Element: the widget is handed to the host
IntoElement ==
    /\ pc = "table"
    /\ pc' = "widget"
    /\ table' = table
    /\ call' = Called("into", 0, Ok(0), Pre(T))
    /\ UNCHANGED <<asked_fill, asked_selected>>

Layout ==
    /\ pc = "widget"
    /\ pc' = "pass"
    /\ table' = table
    /\ call' = Called("layout", 0, [tag |-> "Node", val |-> layout(T)], Pre(T))
    /\ UNCHANGED <<asked_fill, asked_selected>>

Draw ==
    /\ pc = "widget"
    /\ \E n_children \in 0..(TableLen(T) + 1) :
          LET d == draw(T, n_children)
          IN  /\ pc' = IF d.panic THEN "panic" ELSE "pass"
              /\ table' = table
              /\ call' = Called("draw", n_children,
                                [tag |-> IF d.panic THEN "Panic" ELSE "Drawn",
                                 val |-> d.quads],
                                Pre(T))
    /\ UNCHANGED <<asked_fill, asked_selected>>

\* a pass that reads the table and leaves it as it is
Pass(op, arg, tag, val) ==
    /\ pc = "widget"
    /\ pc' = "pass"
    /\ table' = table
    /\ call' = Called(op, arg, [tag |-> tag, val |-> val], Pre(T))
    /\ UNCHANGED <<asked_fill, asked_selected>>

Children ==
    /\ pc = "widget"
    /\ Pass("children", 0, "Trees", children(T))

Diff ==
    /\ pc = "widget"
    /\ Pass("diff", 0, "Trees", diff(T))

Operate ==
    /\ pc = "widget"
    /\ \E n_children \in 0..(TableLen(T) + 1) :
           Pass("operate", n_children, "Rows", operate(T, n_children))

MouseInteraction ==
    /\ pc = "widget"
    /\ \E n_children \in 0..(TableLen(T) + 1) :
           Pass("mouse_interaction", n_children, "Rows", mouse_interaction(T, n_children))

OnEvent ==
    /\ pc = "widget"
    /\ \E event \in Events, n_children \in 0..(TableLen(T) + 1) :
           \E capturing \in Capturing(Min(TableLen(T), n_children)) :
               Pass("on_event",
                    [event |-> event, n_children |-> n_children, capturing |-> capturing],
                    "Status", on_event(T, event, n_children, capturing))

\* the pass returns: the host holds the widget again
Return ==
    /\ pc = "pass"
    /\ pc' = "widget"
    /\ table' = table
    /\ call' = Called("return", 0, Ok(0), Pre(T))
    /\ UNCHANGED <<asked_fill, asked_selected>>

Next ==
    \/ TryNew
    \/ FillFactor
    \/ Padding
    \/ Striped
    \/ Style
    \/ TrySelected
    \/ TryHeader
    \/ IntoElement
    \/ Layout
    \/ Draw
    \/ Children
    \/ Diff
    \/ Operate
    \/ MouseInteraction
    \/ OnEvent
    \/ Return

Spec == Init /\ [][Next]_vars

----------------------------------------------------------------------------
(* Table construction *)

\* the contents of a wrapped row's cells, in order
Contents(row) == [c \in 1..Len(row.cells) |-> row.cells[c].content]

Uniform(columns, rows) ==
    \A i \in 1..Len(rows) : Len(rows[i].cells) = Len(columns)

\* C1: try_new on rows that all have columns.len() cells returns Ok, and the
\* table holds the same rows in the same order, no header, no selection,
\* striping off and fill_factor 1.
C1_TryNewOk ==
    (call.op = "try_new" /\ Uniform(call.arg.columns, call.arg.rows)) =>
        /\ pc = "table"
        /\ call.ret.tag = "Ok"
        /\ T.columns = call.arg.columns
        /\ Len(T.rows) = Len(call.arg.rows)
        /\ \A i \in 1..Len(T.rows) : Contents(T.rows[i]) = call.arg.rows[i].cells
        /\ T.header = None
        /\ T.selected = None
        /\ T.is_striped = FALSE
        /\ T.fill_factor = 1

C1_Witness ==
    /\ call.op = "try_new"
    /\ pc = "table"
    /\ Len(call.arg.rows) = MaxRows
    /\ Len(call.arg.columns) = MaxCols

\* C2: try_new with at least one row whose cell count differs from
\* columns.len() returns Err(columns.len()) and no table, whichever rows
\* mismatch.
C2_TryNewErr ==
    (call.op = "try_new" /\ ~Uniform(call.arg.columns, call.arg.rows)) =>
        /\ pc = "err"
        /\ call.ret = Err(Len(call.arg.columns))
        /\ table = None

C2_Witness ==
    /\ call.op = "try_new"
    /\ pc = "err"
    /\ Len(call.arg.rows) = MaxRows
    /\ Len(call.arg.columns) = MaxCols
    /\ Len(call.arg.rows[1].cells) = MaxCols
    /\ Len(call.arg.rows[2].cells) = MaxCols + 1
    /\ Len(call.arg.rows[3].cells) = 0

\* C3: try_selected returns Err(rows.len()) exactly when the slice length
\* differs from the number of content rows (the header is not counted), and
\* otherwise Ok with the slice attached as the selection.
C3_TrySelected ==
    call.op = "try_selected" =>
        IF Len(call.arg) # call.pre.nrows
        THEN /\ pc = "err"
             /\ call.ret = Err(call.pre.nrows)
             /\ table = None
        ELSE /\ pc = "table"
             /\ call.ret.tag = "Ok"
             /\ Len(T.rows) = call.pre.nrows
             /\ T.selected = Some(call.arg)

\* a table with a header is offered one bit per row and one for the header
C3_Witness ==
    /\ call.op = "try_selected"
    /\ call.pre.has_header
    /\ call.pre.nrows >= 1
    /\ Len(call.arg) = call.pre.nrows + 1
    /\ call.ret = Err(call.pre.nrows)

\* C4: try_header returns Err(columns.len()) exactly when the header row's
\* cell count differs from the column count, and otherwise Ok with the header
\* set, whatever the number of rows and whether or not a selection is attached.
C4_TryHeader ==
    call.op = "try_header" =>
        IF Len(call.arg.header.cells) # call.pre.ncols
        THEN /\ pc = "err"
             /\ call.ret = Err(call.pre.ncols)
             /\ table = None
        ELSE /\ pc = "table"
             /\ call.ret.tag = "Ok"
             /\ Len(T.columns) = call.pre.ncols
             /\ IsSome(T.header)
             /\ Contents(Unwrap(T.header)) = call.arg.header.cells

C4_Witness ==
    /\ call.op = "try_header"
    /\ pc = "table"
    /\ IsSome(T.selected)
    /\ Len(T.rows) = MaxRows
    /\ Len(T.columns) = MaxCols
    /\ Len(T.rows) # Len(T.columns)

\* C5: in every table built by try_new and any sequence of builder calls that
\* returned Ok, an attached selection has one bit per content row.
C5_SelectionLength ==
    (pc \in {"table", "widget", "pass"} /\ IsSome(T.selected)) =>
        Len(Unwrap(T.selected)) = Len(T.rows)

\* a header replaces an earlier header on a table that has a selection
C5_Witness ==
    /\ call.op = "try_header"
    /\ pc = "table"
    /\ call.pre.has_header
    /\ IsSome(T.selected)
    /\ Len(Unwrap(T.selected)) = MaxRows
    /\ T.is_striped
    /\ T.fill_factor # 1
    /\ T.padding # 0

----------------------------------------------------------------------------
(* Row backgrounds of a draw pass *)

\* the quads the last draw pass filled, and their backgrounds in paint order
Quads == call.ret.val
Backgrounds == [k \in 1..Len(Quads) |-> Quads[k].background]

NormalBg == ThemeBackground(T.style, "active")
HeaderBg == ThemeBackground(T.style, "header")
StripedBg == ThemeBackground(T.style, "striped")
SelectedBg == ThemeBackground(T.style, "selected")

\* C6: with a header, striping on and no selection, the first advance returns
\* the header background and the following ones normal, striped, normal, ...
\* starting with normal.
C6_HeaderThenStripes ==
    (call.op = "draw" /\ IsSome(T.header) /\ T.is_striped /\ T.selected = None) =>
        /\ call.ret.tag = "Drawn"
        /\ Len(Quads) = Min(call.arg, Len(T.rows) + 1)
        /\ \A k \in 1..Len(Quads) :
              Backgrounds[k] = IF k = 1 THEN HeaderBg
                               ELSE IF (k - 2) % 2 = 0 THEN NormalBg
                               ELSE StripedBg

C6_Witness ==
    /\ call.op = "draw"
    /\ IsSome(T.header)
    /\ T.is_striped
    /\ T.selected = None
    /\ Len(T.rows) = MaxRows
    /\ Len(Quads) = MaxRows + 1
    /\ Backgrounds[2] = NormalBg
    /\ Backgrounds[3] = StripedBg

\* C7: with no header, striping off and a selection s, the i-th advance returns
\* the selected background if s[i] and the normal background otherwise; for
\* s = [true, false, true] the sequence is selected, normal, selected.
C7_SelectionOnly ==
    (call.op = "draw" /\ T.header = None /\ ~T.is_striped /\ IsSome(T.selected)) =>
        LET s == Unwrap(T.selected)
        IN  /\ call.ret.tag = "Drawn"
            /\ Len(Quads) = Min(call.arg, Len(s))
            /\ \A i \in 1..Len(Quads) :
                  Backgrounds[i] = IF s[i] THEN SelectedBg ELSE NormalBg
            /\ (s = <<TRUE, FALSE, TRUE>> /\ call.arg >= 3) =>
                  Backgrounds = <<SelectedBg, NormalBg, SelectedBg>>

C7_Witness ==
    /\ call.op = "draw"
    /\ T.header = None
    /\ ~T.is_striped
    /\ T.selected = Some(<<TRUE, FALSE, TRUE>>)
    /\ Backgrounds = <<SelectedBg, NormalBg, SelectedBg>>

\* C8: with a header and a selection, the header advance returns the header
\* background and reads no selection bit: content row i is painted with the
\* selected background exactly when bit i is set, also when the first bit is.
C8_HeaderReadsNoBit ==
    (call.op = "draw" /\ IsSome(T.header) /\ IsSome(T.selected)) =>
        LET s == Unwrap(T.selected)
        IN  /\ call.ret.tag = "Drawn"
            /\ Len(Quads) = Min(call.arg, Len(T.rows) + 1)
            /\ Len(Quads) >= 1 =>
                  (Backgrounds[1] = HeaderBg /\ Quads[1].row = Unwrap(T.header))
            /\ \A k \in 2..Len(Quads) :
                  /\ Quads[k].row = T.rows[k - 1]
                  /\ (Backgrounds[k] = SelectedBg) <=> s[k - 1]

C8_Witness ==
    /\ call.op = "draw"
    /\ IsSome(T.header)
    /\ IsSome(T.selected)
    /\ Len(T.rows) = MaxRows
    /\ Unwrap(T.selected)[1]
    /\ ~Unwrap(T.selected)[MaxRows]
    /\ Len(Quads) = MaxRows + 1
    /\ Backgrounds[1] = HeaderBg
    /\ Backgrounds[2] = SelectedBg

----------------------------------------------------------------------------
(* Width policy *)

AllFixed(columns) == \A i \in 1..Len(columns) : columns[i].width.kind = "Fixed"

C10_FixedLayoutWidth ==
    (call.op = "layout" /\ Len(T.columns) >= 1 /\ AllFixed(T.columns)) =>
        call.ret.val.width.kind = "Fixed"

----------------------------------------------------------------------------
(* Cell containers *)

\* the cell is sized and padded after its column and as high as its row
SizedAfter(cell, column, height) ==
    /\ cell.width = CoreLength(column.width)
    /\ cell.padding = column.cell_padding
    /\ cell.height = Fixed(height)

AlignedTo(cell, alignment) ==
    /\ cell.align_x = alignment[1]
    /\ cell.align_y = alignment[2]

\* C11: with Some(alignment) every header cell takes that alignment whatever
\* its column's, with None its column's alignment; either way its width and
\* padding are the column's and its height the header row's. Content rows
\* always use their column's alignment.
C11_HeaderAlignment ==
    /\ (call.op = "try_header" /\ pc = "table") =>
          LET h == Unwrap(T.header)
              a == call.arg.overriding_alignments
          IN  /\ Len(h.cells) = Len(T.columns)
              /\ \A i \in 1..Len(h.cells) :
                    /\ SizedAfter(h.cells[i], T.columns[i], call.arg.header.height)
                    /\ AlignedTo(h.cells[i],
                                 IF IsSome(a) THEN Unwrap(a) ELSE T.columns[i].alignment)
    /\ pc \in {"table", "widget", "pass"} =>
          \A r \in 1..Len(T.rows) : \A i \in 1..Len(T.rows[r].cells) :
              AlignedTo(T.rows[r].cells[i], T.columns[i].alignment)

\* an override of (Center, Center) on a column that aligns otherwise
C11_Witness ==
    /\ call.op = "try_header"
    /\ pc = "table"
    /\ IsSome(call.arg.overriding_alignments)
    /\ Len(T.columns) = MaxCols
    /\ Len(T.rows) >= 1
    /\ T.columns[1].alignment # Unwrap(call.arg.overriding_alignments)
    /\ AlignedTo(Unwrap(T.header).cells[1], Unwrap(call.arg.overriding_alignments))
    /\ AlignedTo(T.rows[1].cells[1], T.columns[1].alignment)

----------------------------------------------------------------------------
(* Events *)

\* C12: whatever the event and the table, update reports Ignored and
\* publishes nothing through on_selected, and the selection stays the slice
\* given to try_selected through every pass.
C12_UpdateInert ==
    /\ call.op = "on_event" =>
          /\ call.ret.val.table_status = "Ignored"
          /\ call.ret.val.published = <<>>
    /\ pc \in {"widget", "pass"} => T.selected = asked_selected

C12_Witness ==
    /\ call.op = "on_event"
    /\ call.arg.event = "ButtonPressed"
    /\ call.arg.n_children = Len(T.rows)
    /\ Len(T.rows) = MaxRows
    /\ IsSome(T.selected)
    /\ Unwrap(T.selected)[1]
    /\ call.ret.val.table_status = "Ignored"

----------------------------------------------------------------------------
(* Passes over the rows *)

HeaderCount == IF IsSome(T.header) THEN 1 ELSE 0

\* C13: a draw pass over a table built through Ok results never fails: one
\* advance of the row background per visited row, whatever the number of
\* children the host supplies.
C13_DrawNeverFails ==
    /\ pc # "panic"
    /\ call.op = "draw" =>
          /\ call.ret.tag = "Drawn"
          /\ Len(Quads) = Min(call.arg, Len(T.rows) + HeaderCount)

\* the host supplies one child more than the table has rows
C13_Witness ==
    /\ call.op = "draw"
    /\ IsSome(T.header)
    /\ IsSome(T.selected)
    /\ Len(T.rows) = MaxRows
    /\ call.arg = MaxRows + 2
    /\ call.ret.tag = "Drawn"
    /\ Len(Quads) = MaxRows + 1

\* the header, if any, then the content rows in storage order
Expected == (IF IsSome(T.header) THEN <<Unwrap(T.header)>> ELSE <<>>) \o T.rows
ExpectedFirst(n) == SubSeq(Expected, 1, Min(n, Len(Expected)))

\* C14: the row iterator yields the header first and then the rows in
\* storage order, rows.len() + (1 if header) elements; children, diff, draw,
\* operate, on_event and mouse_interaction visit that sequence, and in draw
\* the k-th background goes with the k-th of them: the header background to
\* the header and to no other row.
C14_SameSequence ==
    /\ call.op \in {"children", "diff"} =>
          /\ call.ret.val = Expected
          /\ Len(call.ret.val) = Len(T.rows) + HeaderCount
    /\ call.op \in {"operate", "mouse_interaction"} =>
          call.ret.val = ExpectedFirst(call.arg)
    /\ call.op = "on_event" =>
          call.ret.val.delivered = ExpectedFirst(call.arg.n_children)
    /\ call.op = "draw" =>
          /\ [k \in 1..Len(Quads) |-> Quads[k].row] = ExpectedFirst(call.arg)
          /\ \A k \in 1..Len(Quads) :
                (Backgrounds[k] = HeaderBg) <=> (IsSome(T.header) /\ k = 1)

C14_Witness ==
    /\ call.op = "draw"
    /\ IsSome(T.header)
    /\ Len(T.rows) = MaxRows
    /\ Len(T.columns) = MaxCols
    /\ T.selected = None
    /\ ~T.is_striped
    /\ Len(Quads) = MaxRows + 1
    /\ Quads[1].row = Unwrap(T.header)
    /\ Quads[MaxRows + 1].row = T.rows[MaxRows]

\* C15: on_event passes the event to every visited row, also after a row has
\* captured it, and returns Captured exactly when some row captured it.
C15_FanOut ==
    call.op = "on_event" =>
        LET r == call.ret.val
        IN  /\ Len(r.delivered) = Min(call.arg.n_children, Len(T.rows) + HeaderCount)
            /\ Len(r.statuses) = Len(r.delivered)
            /\ (r.status = "Captured") <=>
                  (\E k \in 1..Len(r.statuses) : r.statuses[k] = "Captured")

\* the first row captures the event and the rows after it still get it
C15_Witness ==
    /\ call.op = "on_event"
    /\ call.arg.capturing = {1}
    /\ Len(T.rows) = MaxRows
    /\ call.ret.val.statuses[1] = "Captured"
    /\ Len(call.ret.val.delivered) = MaxRows + 1
    /\ call.ret.val.statuses[MaxRows + 1] = "Ignored"
    /\ call.ret.val.status = "Captured"

----------------------------------------------------------------------------
(* Frame of the builder calls *)

Setters == {"fill_factor", "padding", "striped", "style"}

\* the headers and alignments try_header accepts on table t
FittingHeaders(t) == { h \in HeaderRows : Len(h.cells) = Len(t.columns) }

\* one builder step on a table: what it may change
BuilderFrame ==
    /\ call'.op \in Setters => pc' = "table"
    /\ (call'.op = "fill_factor" /\ pc' = "table") =>
          table'[1] = [T EXCEPT !.fill_factor = call'.arg]
    /\ (call'.op = "padding" /\ pc' = "table") =>
          table'[1] = [T EXCEPT !.padding = call'.arg]
    /\ (call'.op = "striped" /\ pc' = "table") =>
          table'[1] = [T EXCEPT !.is_striped = call'.arg]
    /\ (call'.op = "style" /\ pc' = "table") =>
          table'[1] = [T EXCEPT !.style = call'.arg]
    /\ (call'.op = "try_header" /\ pc' = "table") =>
          /\ IsSome(table'[1].header)
          /\ table'[1] = [T EXCEPT !.header = table'[1].header]
    /\ (call'.op = "try_selected" /\ pc' = "table") =>
          /\ table'[1] = [T EXCEPT !.selected = Some(call'.arg)]
          /\ \A h \in FittingHeaders(T), a \in Alignments :
                try_header(table'[1], h, a) =
                    try_selected(try_header(T, h, a).val, call'.arg)

\* C16: fill_factor, padding, striped and style always succeed and change
\* only their own field; a successful try_header changes only the header and
\* a successful try_selected only the selection, so the two commute.
C16_BuilderFrame == [][pc = "table" => BuilderFrame]_vars

C16_Witness ==
    /\ call.op = "try_selected"
    /\ pc = "table"
    /\ IsSome(T.header)
    /\ T.is_striped
    /\ T.style = "Custom"
    /\ T.fill_factor = 3
    /\ Len(T.rows) = MaxRows

\* C17: the child count layout hands to the flex pass is the number of rows
\* the iterator yields: rows.len(), plus 1 with a header.
C17_LayoutItems ==
    call.op = "layout" => call.ret.val.items = Len(T.rows) + HeaderCount

----------------------------------------------------------------------------
(* Stripes under a selection *)

\* C18: with striping on and a selection attached the parity moves on every
\* content row, selected or not: a content row that is not selected is
\* striped exactly when its 0-based index is odd, with or without a header;
\* with striping off no row is striped.
C18_StripesUnderSelection ==
    call.op = "draw" =>
        /\ IsSome(T.selected) =>
              \A k \in (HeaderCount + 1)..Len(Quads) :
                  LET i == k - HeaderCount - 1
                  IN  ~Unwrap(T.selected)[i + 1] =>
                          Backgrounds[k] = IF T.is_striped /\ i % 2 = 1
                                           THEN StripedBg ELSE NormalBg
        /\ ~T.is_striped => \A k \in 1..Len(Quads) : Backgrounds[k] # StripedBg

\* row 0 is selected, row 1 is not and is striped
C18_Witness ==
    /\ call.op = "draw"
    /\ IsSome(T.header)
    /\ T.is_striped
    /\ IsSome(T.selected)
    /\ Len(T.rows) = MaxRows
    /\ Unwrap(T.selected)[1]
    /\ ~Unwrap(T.selected)[2]
    /\ ~Unwrap(T.selected)[3]
    /\ Len(Quads) = MaxRows + 1
    /\ Backgrounds[3] = StripedBg
    /\ Backgrounds[4] = NormalBg

====
